---- MODULE Spec2Model ----
(***************************************************************************)
(* Sticky proxy assignment (src/sticky_proxy_manager.py): the lease map,   *)
(* the usage history, the tiered creation of a proxy, the connectivity     *)
(* probe, the location verifier and the location report.                   *)
(***************************************************************************)
EXTENDS Integers, Sequences, FiniteSets, TLC

VARIABLES
    config,               \* self.config: the SOAX credentials of the process
    proxy_assignments,    \* self.proxy_assignments: account key -> proxy dict
    location_history,     \* self.location_history: account key -> list of usage records
    assignments_file,     \* account_data/proxy_assignments.json
    history_file,         \* account_data/location_history.json
    cached,               \* the caller's self.sticky_proxy_manager: a second instance
    calls,                \* per thread, the call of the manager it is in the middle of
    now,                  \* the last value datetime.now() returned
    granted,              \* history: per account, every proxy a call returned, in order
    derived,              \* history: per account, every Tier-1 candidate a call derived
    lastCall              \* the last operation: its inputs, its steps and what it returned

vars == <<config, proxy_assignments, location_history, assignments_file,
          history_file, cached, calls, now, granted, derived, lastCall>>

(***************************************************************************)
(* Bounds of the model.                                                    *)
(***************************************************************************)
\* datetime.now() readings followed with two accounts and every operation
MaxClock == 2
\* readings followed with one account whose proxy dies and is replaced
MaxSingleClock == 6
\* readings followed with one account used over and over through a healthy proxy
MaxLedgerClock == 60

\* Python's None where a string is expected
None == "<None>"

\* Python's None where a dict is expected (a returned proxy)
NoneDict == [none |-> TRUE]

\* account ids that call the manager
Accounts == {16, 42}

(***************************************************************************)
(* The two JSON files.  A file holds a dict, or bytes json.load rejects.    *)
(***************************************************************************)
\* a file that is not JSON: an open(..., 'w') that truncated it and a dump
\* that did not finish
Corrupt == <<"not JSON">>

\* what a save meets: the dump is written; open() raises and the file stays as
\* it was; open() truncates the file and the dump does not finish
WriteOutcomes == {"written", "refused", "torn"}

\* a load that hands on whatever the file holds
load_proxy_assignments_raw(file) == file

\* load_proxy_assignments: the dict of the file, {} when the file is not
\* there or cannot be parsed (a file not there is the empty dict here)
load_proxy_assignments(file) == IF file = Corrupt THEN <<>> ELSE file

\* load_location_history: the same for the history file
load_location_history(file) == IF file = Corrupt THEN <<>> ELSE file

\* save_proxy_assignments: the exception of a failed write is logged, no more
save_proxy_assignments(file, assignments, outcome) ==
    CASE outcome = "written" -> assignments
      [] outcome = "refused" -> file
      [] outcome = "torn"    -> Corrupt

\* save_location_history: the same for the history file
save_location_history(file, history, outcome) ==
    CASE outcome = "written" -> history
      [] outcome = "refused" -> file
      [] outcome = "torn"    -> Corrupt

(***************************************************************************)
(* Python dict helpers.                                                    *)
(***************************************************************************)
\* d.get(k, default)
Get(d, k, default) == IF k \in DOMAIN d THEN d[k] ELSE default

\* d.update(u)
Update(d, u) ==
    [k \in DOMAIN d \cup DOMAIN u |-> IF k \in DOMAIN u THEN u[k] ELSE d[k]]

\* d[k] = v on a dict held as a function
Put(d, k, v) == [x \in DOMAIN d \cup {k} |-> IF x = k THEN v ELSE d[x]]

\* str(x) inside an f-string
Str(x) == IF x = None THEN "None" ELSE x

\* seq[-n:]
LastN(seq, n) ==
    IF Len(seq) <= n THEN seq ELSE SubSeq(seq, Len(seq) - n + 1, Len(seq))

(***************************************************************************)
(* Configuration (src/config.py) as the process sees it.                   *)
(***************************************************************************)
ValidConfig ==
    [SOAX_USERNAME |-> "package-309866-base", SOAX_PASSWORD |-> "secret",
     SOAX_ENDPOINT |-> "residential-proxy.soax.com:9000"]

\* os.getenv returns None for a variable that is not set
Configs ==
    { ValidConfig,
      [ValidConfig EXCEPT !.SOAX_USERNAME = None],
      [ValidConfig EXCEPT !.SOAX_PASSWORD = None] }

\* Python truthiness of a string-or-None setting
Truthy(x) == x # None /\ x # ""

validate_soax_credentials(cfg) ==
    Truthy(cfg.SOAX_USERNAME) /\ Truthy(cfg.SOAX_PASSWORD)

(***************************************************************************)
(* Candidate derivation.                                                   *)
(***************************************************************************)
reliable_cities ==
    << [city |-> "phoenix",    region |-> "arizona"],
       [city |-> "scottsdale", region |-> "arizona"],
       [city |-> "tempe",      region |-> "arizona"],
       [city |-> "mesa",       region |-> "arizona"],
       [city |-> "losangeles", region |-> "california"],
       [city |-> "sandiego",   region |-> "california"],
       [city |-> "miami",      region |-> "florida"],
       [city |-> "orlando",    region |-> "florida"],
       [city |-> "chicago",    region |-> "illinois"],
       [city |-> "newyork",    region |-> "newyork"] >>

\* str.title() on the names of the pool
title(s) ==
    CASE s = "phoenix"    -> "Phoenix"
      [] s = "scottsdale" -> "Scottsdale"
      [] s = "tempe"      -> "Tempe"
      [] s = "mesa"       -> "Mesa"
      [] s = "losangeles" -> "Losangeles"
      [] s = "sandiego"   -> "Sandiego"
      [] s = "miami"      -> "Miami"
      [] s = "orlando"    -> "Orlando"
      [] s = "chicago"    -> "Chicago"
      [] s = "newyork"    -> "Newyork"
      [] s = "arizona"    -> "Arizona"
      [] s = "california" -> "California"
      [] s = "florida"    -> "Florida"
      [] s = "illinois"   -> "Illinois"

\* An account id is a Python value.  The callers pass integers; a number
\* 1000 + n stands for the text that str(n) gives followed by one blank, the
\* same id as it comes out of a file or a form.
WithTrailingSpace(n) == 1000 + n

IsPaddedText(account_id) == account_id >= 1000

\* str(account_id): the text of an integer, a text as it is
python_str(account_id) ==
    IF IsPaddedText(account_id) THEN ToString(account_id - 1000) \o " "
    ELSE ToString(account_id)

\* int(account_id): an integer as it is, a text parsed with its blanks skipped
python_int(account_id) ==
    IF IsPaddedText(account_id) THEN account_id - 1000 ELSE account_id

\* account_key = str(account_id)
account_key(account_id) == python_str(account_id)

\* the account whose id reaches the manager in both forms
FormAccounts == {42}

\* every id the manager is called with
Tenants == Accounts \cup {WithTrailingSpace(a) : a \in FormAccounts}

\* hashlib.md5(str(account_id).encode()).hexdigest()[:8]
account_hash(account_id) ==
    LET text == python_str(account_id)
    IN CASE text = "16"  -> "c74d97b0"
         [] text = "17"  -> "70efdf2e"
         [] text = "18"  -> "6f4922f4"
         [] text = "42"  -> "a1d0c6e8"
         [] text = "16 " -> "2a768106"
         [] text = "42 " -> "5b953745"

\* a session id that changes with the clock instead of with the account alone
session_id_clocked(account_id) ==
    "sticky_" \o ToString(now) \o "_" \o ToString(account_id)

session_id(account_id) ==
    "sticky_" \o account_hash(account_id) \o "_" \o python_str(account_id)

\* reliable_cities[int(account_id) % len(reliable_cities)], Python lists being 0-based
selected_location(account_id) ==
    reliable_cities[(python_int(account_id) % Len(reliable_cities)) + 1]

proxy_configs(account_id, cfg) ==
    LET loc == selected_location(account_id)
        sid == session_id(account_id)
    IN << [username |-> "package-309866-country-us-region-" \o loc.region
                        \o "-city-" \o loc.city \o "-sessionid-" \o sid,
           description |-> "Full SOAX format"],
          [username |-> "package-309866-country-us-sessionid-" \o sid,
           description |-> "Generic US format"],
          [username |-> cfg.SOAX_USERNAME,
           description |-> "Original config username"] >>

\* the proxy dict built for one configuration, created_at read from the clock
candidate_proxy(account_id, cfg, conf, t) ==
    LET loc == selected_location(account_id)
    IN [type |-> "soax",
        endpoint |-> cfg.SOAX_ENDPOINT,
        username |-> conf.username,
        password |-> cfg.SOAX_PASSWORD,
        geo_country |-> "United States",
        geo_region |-> title(loc.region),
        geo_city |-> title(loc.city),
        session_id |-> session_id(account_id),
        account_id |-> account_id,
        is_sticky |-> TRUE,
        created_at |-> t,
        config_used |-> conf.description]

(***************************************************************************)
(* ConnectivityProbe: test_proxy_connectivity_robust.  `responses` holds    *)
(* what each of the four echo services answers through the proxy: "ok" (a   *)
(* 200 with a body of more than 5 characters), "invalid" or "timeout".      *)
(***************************************************************************)
NumTestServices == 4

\* a probe that wants two answers
probe_loop_quorum_two(responses, i, successful_tests) ==
    Cardinality({j \in 1..NumTestServices : responses[j] = "ok"}) >= 2

RECURSIVE probe_loop(_, _, _)
probe_loop(responses, i, successful_tests) ==
    IF i > NumTestServices
    THEN successful_tests >= 1
    ELSE IF responses[i] = "ok"
         THEN IF successful_tests + 1 >= 2
              THEN TRUE
              ELSE probe_loop(responses, i + 1, successful_tests + 1)
         ELSE probe_loop(responses, i + 1, successful_tests)

\* a probe that reports a dead proxy as working
test_proxy_connectivity_always(proxy, responses) == TRUE

test_proxy_connectivity_robust(proxy, responses) ==
    IF proxy = NoneDict \/ ~Truthy(Get(proxy, "username", None))
                    \/ ~Truthy(Get(proxy, "password", None))
    THEN FALSE
    ELSE probe_loop(responses, 1, 0)

\* the number of "ok" answers among the four
successful_services(responses) ==
    Cardinality({i \in 1..NumTestServices : responses[i] = "ok"})

(***************************************************************************)
(* AttributeVerifier: verify_proxy_location_robust.  `responses` holds what *)
(* each of the three location services answers: [kind |-> "timeout"],       *)
(* "http_error" or "bad_json", or [kind |-> "json", data |-> the object].   *)
(***************************************************************************)
NumLocationServices == 3

location_service_name(i) ==
    CASE i = 1 -> "IP-API" [] i = 2 -> "IPapi.co" [] i = 3 -> "FreeGeoIP"

\* the lambda of each service: its own field names to ip/country/region/city
location_parser(i, data) ==
    CASE i = 1 -> [ip      |-> Get(data, "query", None),
                   country |-> Get(data, "country", None),
                   region  |-> Get(data, "regionName", None),
                   city    |-> Get(data, "city", None)]
      [] i = 2 -> [ip      |-> Get(data, "ip", None),
                   country |-> Get(data, "country_name", None),
                   region  |-> Get(data, "region", None),
                   city    |-> Get(data, "city", None)]
      [] i = 3 -> [ip      |-> Get(data, "ip", None),
                   country |-> Get(data, "country_name", None),
                   region  |-> Get(data, "region_name", None),
                   city    |-> Get(data, "city", None)]

\* any(indicator in str(country).upper() for indicator in us_indicators): a
\* substring test, so "Australia" (AUSTRALIA) matches "US" as well
us_indicator_in(country) ==
    CASE country = "United States" -> TRUE
      [] country = "US"            -> TRUE
      [] country = "Australia"     -> TRUE
      [] country = "Canada"        -> FALSE
      [] country = None            -> FALSE

RECURSIVE location_loop(_, _)
location_loop(responses, i) ==
    IF i > NumLocationServices
    THEN [verified |-> FALSE, error |-> "All location services failed"]
    ELSE IF responses[i].kind = "json"
         THEN LET parsed == location_parser(i, responses[i].data)
              IN IF us_indicator_in(parsed.country)
                 THEN [verified |-> TRUE,
                       ip |-> parsed.ip,
                       country |-> parsed.country,
                       region |-> parsed.region,
                       city |-> parsed.city,
                       service |-> location_service_name(i)]
                 ELSE location_loop(responses, i + 1)
         ELSE location_loop(responses, i + 1)

verify_proxy_location_robust(proxy, responses) ==
    IF proxy = NoneDict \/ ~Truthy(Get(proxy, "username", None))
                    \/ ~Truthy(Get(proxy, "password", None))
    THEN [verified |-> FALSE, error |-> "Invalid proxy"]
    ELSE location_loop(responses, 1)

(***************************************************************************)
(* create_sticky_proxy_for_account_fixed.  `tiers[i]` is what the echo      *)
(* services answer through configuration i, `located` what the location     *)
(* services answer, `t` the clock reading.  The result carries the steps    *)
(* taken beside the proxy: the candidates probed, in order, each with the   *)
(* probe's verdict, and the verifier's results.                             *)
(***************************************************************************)
\* a verified proxy that keeps the requested location instead of the observed one
verified_fields_requested(verification, loc) ==
    [verified_ip |-> verification.ip,
     verified_country |-> verification.country,
     verified_region |-> title(loc.region),
     verified_city |-> title(loc.city),
     us_verified |-> TRUE,
     verification_service |-> Get(verification, "service", "ip-api")]

\* lines 192-199: the proxy of a verified location
verified_fields(verification, loc) ==
    [verified_ip |-> verification.ip,
     verified_country |-> verification.country,
     verified_region |-> Get(verification, "region", title(loc.region)),
     verified_city |-> Get(verification, "city", title(loc.city)),
     us_verified |-> TRUE,
     verification_service |-> Get(verification, "service", "ip-api")]

\* an unverified proxy that reports its location as unknown
assumed_fields_unknown(loc) ==
    [verified_ip |-> "Unknown",
     verified_country |-> "Unknown",
     verified_region |-> "Unknown",
     verified_city |-> "Unknown",
     us_verified |-> FALSE]

\* lines 203-210: the proxy keeps the assigned location
assumed_fields(loc) ==
    [verified_ip |-> "Unknown",
     verified_country |-> "US (Assigned)",
     verified_region |-> title(loc.region),
     verified_city |-> title(loc.city),
     us_verified |-> FALSE,
     note |-> "Working proxy but location verification failed"]

\* a loop that probes every configuration and keeps the last one that passed
try_configs_keep_going(account_id, cfg, t, tiers, located, i, probes) ==
    LET configs == proxy_configs(account_id, cfg)
        loc == selected_location(account_id)
        all == [j \in 1..Len(configs) |->
                  LET proxy == candidate_proxy(account_id, cfg, configs[j], t)
                  IN [candidate |-> proxy,
                      alive |-> test_proxy_connectivity_robust(proxy, tiers[j]),
                      responses |-> tiers[j]]]
        passing == {j \in 1..Len(configs) : all[j].alive}
    IN IF passing = {}
       THEN [proxy |-> NoneDict, probes |-> all, verifications |-> <<>>]
       ELSE LET k == CHOOSE j \in passing : \A l \in passing : l <= j
                verification == verify_proxy_location_robust(all[k].candidate, located)
            IN [proxy |-> IF verification.verified
                          THEN Update(all[k].candidate,
                                      verified_fields(verification, loc))
                          ELSE Update(all[k].candidate, assumed_fields(loc)),
                probes |-> all,
                verifications |-> <<verification>>]

RECURSIVE try_configs(_, _, _, _, _, _, _)
try_configs(account_id, cfg, t, tiers, located, i, probes) ==
    LET configs == proxy_configs(account_id, cfg)
    IN IF i > Len(configs)
       THEN [proxy |-> NoneDict, probes |-> probes, verifications |-> <<>>]
       ELSE LET proxy == candidate_proxy(account_id, cfg, configs[i], t)
                loc   == selected_location(account_id)
            IN IF test_proxy_connectivity_robust(proxy, tiers[i])
               THEN LET verification == verify_proxy_location_robust(proxy, located)
                    IN [proxy |-> IF verification.verified
                                  THEN Update(proxy, verified_fields(verification, loc))
                                  ELSE Update(proxy, assumed_fields(loc)),
                        probes |-> Append(probes, [candidate |-> proxy, alive |-> TRUE,
                                                   responses |-> tiers[i]]),
                        verifications |-> <<verification>>]
               ELSE try_configs(account_id, cfg, t, tiers, located, i + 1,
                                Append(probes, [candidate |-> proxy, alive |-> FALSE,
                                                responses |-> tiers[i]]))

create_sticky_proxy_for_account_fixed(account_id, cfg, t, tiers, located) ==
    IF ~validate_soax_credentials(cfg)
    THEN [proxy |-> NoneDict, probes |-> <<>>, verifications |-> <<>>]
    ELSE try_configs(account_id, cfg, t, tiers, located, 1, <<>>)

(***************************************************************************)
(* UsageLedger: log_location_usage and check_location_consistency.         *)
(***************************************************************************)
\* "Keep only last 50 records per account"
HistoryCap == 50
\* "Check last 5 logins for consistency"
RecentWindow == 5

\* a record of the location that was asked for
usage_record_requested(proxy, t) ==
    [timestamp |-> t,
     city |-> Get(proxy, "geo_city", "Unknown"),
     region |-> Get(proxy, "geo_region", "Unknown"),
     ip |-> Get(proxy, "verified_ip", "Unknown"),
     session_id |-> Get(proxy, "session_id", "Unknown"),
     config_used |-> Get(proxy, "config_used", "Unknown")]

\* lines 438-445
usage_record(proxy, t) ==
    [timestamp |-> t,
     city |-> Get(proxy, "verified_city", "Unknown"),
     region |-> Get(proxy, "verified_region", "Unknown"),
     ip |-> Get(proxy, "verified_ip", "Unknown"),
     session_id |-> Get(proxy, "session_id", "Unknown"),
     config_used |-> Get(proxy, "config_used", "Unknown")]

\* a trim that keeps the oldest records
trim_history_oldest(records) ==
    IF Len(records) > HistoryCap THEN SubSeq(records, 1, HistoryCap) ELSE records

\* lines 450-451
trim_history(records) ==
    IF Len(records) > HistoryCap THEN LastN(records, HistoryCap) ELSE records

\* the in-memory history after log_location_usage(account_id, proxy)
log_location_usage(history, account_id, proxy, t) ==
    LET before == IF account_id \in DOMAIN history THEN history[account_id] ELSE <<>>
    IN Put(history, account_id, trim_history(Append(before, usage_record(proxy, t))))

\* f"{record['city']}, {record['region']}"
location_of(record) == Str(record.city) \o ", " \o Str(record.region)

\* what check_location_consistency logs: nothing, the warning, or the all-clear
check_location_consistency(history, account_id) ==
    IF account_id \notin DOMAIN history THEN "nothing"
    ELSE IF Len(history[account_id]) < 2 THEN "nothing"
    ELSE LET recent_history == LastN(history[account_id], RecentWindow)
             locations == {location_of(recent_history[i]) : i \in 1..Len(recent_history)}
         IN IF Cardinality(locations) > 1 THEN "inconsistency" ELSE "consistent"

(***************************************************************************)
(* get_account_location_report                                             *)
(***************************************************************************)
\* a report that looks at the recent window only
report_records_recent(history, account_id) == LastN(history[account_id], RecentWindow)

\* `history = self.location_history[account_key]`: the whole stored history
report_records(history, account_id) == history[account_id]

\* the i-th smallest element of a set of integers
RECURSIVE Nth(_, _)
Nth(S, i) ==
    LET m == CHOOSE x \in S : \A y \in S : x <= y
    IN IF i = 1 THEN m ELSE Nth(S \ {m}, i - 1)

get_account_location_report(history, account_id) ==
    IF account_id \notin DOMAIN history
    THEN [error |-> "No location history found"]
    ELSE LET records == report_records(history, account_id)
             names == {location_of(records[i]) : i \in 1..Len(records)}
             at(l) == {i \in 1..Len(records) : location_of(records[i]) = l}
             locations == [l \in names |->
                              [j \in 1..Cardinality(at(l)) |->
                                   records[Nth(at(l), j)].timestamp]]
         IN [account_id |-> account_id,
             total_logins |-> Len(records),
             unique_locations |-> Cardinality(names),
             locations |-> locations,
             consistency_risk |-> IF Cardinality(names) > 2 THEN "HIGH"
                                  ELSE IF Cardinality(names) = 1 THEN "LOW"
                                  ELSE "MEDIUM"]

(***************************************************************************)
(* get_consistent_proxy_for_account as a function of what the network      *)
(* answers: `existing` through the stored proxy, `tiers` and `located`     *)
(* through the candidates.  The outcome names the returned proxy, the maps  *)
(* after the call, which file was written, and the steps taken.            *)
(***************************************************************************)
\* a lookup that never finds the stored assignment
has_assignment_never(assignments, account_id) == FALSE

\* line 88: account_key in self.proxy_assignments
has_assignment(assignments, account_id) == account_id \in DOMAIN assignments

\* an assignment that keeps the entry an account already has (dict.setdefault)
store_assignment_keep(assignments, account_id, new_proxy) ==
    IF account_id \in DOMAIN assignments
    THEN assignments
    ELSE Put(assignments, account_id, new_proxy)

\* line 108: self.proxy_assignments[account_key] = new_proxy
store_assignment(assignments, account_id, new_proxy) ==
    Put(assignments, account_id, new_proxy)

\* a failed call that drops the account's entry
discard_assignment(assignments, account_id) ==
    [k \in DOMAIN assignments \ {account_id} |-> assignments[k]]

\* lines 120-121: a call that created nothing returns None and leaves
\* self.proxy_assignments as it is
keep_assignments(assignments, account_id) == assignments

\* a save that does not look at what creation returned
should_save_always(new_proxy) == TRUE

\* line 106: if new_proxy:
should_save(new_proxy) == new_proxy # NoneDict

\* a re-check that also asks the location services about the stored proxy
existing_verifications_again(proxy, located) ==
    <<verify_proxy_location_robust(proxy, located)>>

\* lines 95-99: the stored proxy is probed, logged and returned; its location
\* is not looked up again
existing_verifications(proxy, located) == <<>>

get_consistent_proxy_for_account(account_id, cfg, assignments, history, t, existing, tiers, located) ==
    LET had   == has_assignment(assignments, account_id)
        alive == had /\ test_proxy_connectivity_robust(assignments[account_id], existing)
        base  == [had_lease |-> had,
                  previous |-> IF had THEN assignments[account_id] ELSE NoneDict,
                  existing_alive |-> IF ~had THEN "not probed"
                                     ELSE IF alive THEN "pass" ELSE "fail"]
    IN IF alive
       THEN LET h == log_location_usage(history, account_id, assignments[account_id], t)
            IN Update(base,
                 [result |-> assignments[account_id],
                  assignments |-> assignments,
                  history |-> h,
                  wrote_assignments |-> FALSE,
                  wrote_history |-> TRUE,
                  probes |-> <<>>,
                  verifications |-> existing_verifications(assignments[account_id],
                                                           located),
                  consistency |-> check_location_consistency(h, account_id)])
       ELSE LET made == create_sticky_proxy_for_account_fixed(account_id, cfg, t,
                                                              tiers, located)
            IN IF should_save(made.proxy)
               THEN LET h == log_location_usage(history, account_id, made.proxy, t)
                    IN Update(base,
                         [result |-> made.proxy,
                          assignments |-> store_assignment(assignments, account_id,
                                                           made.proxy),
                          history |-> h,
                          wrote_assignments |-> TRUE,
                          wrote_history |-> TRUE,
                          probes |-> made.probes,
                          verifications |-> made.verifications,
                          consistency |-> check_location_consistency(h, account_id)])
               ELSE Update(base,
                         [result |-> NoneDict,
                          assignments |-> keep_assignments(assignments, account_id),
                          history |-> history,
                          wrote_assignments |-> FALSE,
                          wrote_history |-> FALSE,
                          probes |-> made.probes,
                          verifications |-> made.verifications,
                          consistency |-> "nothing"])

(***************************************************************************)
(* What the network may answer.                                            *)
(***************************************************************************)
\* no service answers; one does; the first two do
ProbeDead == <<"timeout", "timeout", "timeout", "timeout">>
ProbeOne  == <<"timeout", "invalid", "ok", "timeout">>
ProbeTwo  == <<"ok", "ok", "timeout", "timeout">>
\* a probe that is not run in the call
NotProbed == <<"-", "-", "-", "-">>

ProbeInputs == {ProbeDead, ProbeOne, ProbeTwo}

Timeout   == [kind |-> "timeout"]
HttpError == [kind |-> "http_error"]
BadJson   == [kind |-> "bad_json"]
Json(d)   == [kind |-> "json", data |-> d]

\* the first service places the proxy in Phoenix
LocatedPhoenix ==
    << Json([query |-> "203.0.113.7", country |-> "United States",
             regionName |-> "Arizona", city |-> "Phoenix"]),
       Timeout, Timeout >>
\* the first service sees Canada, the second places the proxy in Dallas
LocatedDallas ==
    << Json([query |-> "198.51.100.9", country |-> "Canada",
             regionName |-> "Ontario", city |-> "Toronto"]),
       Json([ip |-> "198.51.100.9", country_name |-> "United States",
             region |-> "Texas", city |-> "Dallas"]),
       Timeout >>
\* no service is reachable
LocatedNowhere == <<Timeout, Timeout, Timeout>>
\* one service answers, and not with a US country
LocatedAbroad ==
    << Json([query |-> "198.51.100.9", country |-> "Canada",
             regionName |-> "Ontario", city |-> "Toronto"]),
       HttpError, BadJson >>

VerifyInputs == {LocatedPhoenix, LocatedDallas, LocatedNowhere, LocatedAbroad}

Passing(inputs) == {p \in inputs : probe_loop(p, 1, 0)}
Failing(inputs) == {p \in inputs : ~probe_loop(p, 1, 0)}

\* what the candidates of one call meet: the tiers probed one after the other
\* until one passes, then the location services
CreateInputs(probes, locateds) ==
    {[tiers |-> <<p, NotProbed, NotProbed>>, located |-> v] :
         p \in Passing(probes), v \in locateds}
    \cup {[tiers |-> <<f, p, NotProbed>>, located |-> v] :
         f \in Failing(probes), p \in Passing(probes), v \in locateds}
    \cup {[tiers |-> <<f, g, p>>, located |-> v] :
         f \in Failing(probes), g \in Failing(probes), p \in Passing(probes),
         v \in locateds}
    \cup {[tiers |-> <<f, g, h>>, located |-> LocatedNowhere] :
         f \in Failing(probes), g \in Failing(probes), h \in Failing(probes)}

\* the Tier-1 (configuration, target) pair of a candidate: how the resource is
\* reached and which city and region were requested
tier1_pair(candidate) ==
    [endpoint |-> candidate.endpoint,
     username |-> candidate.username,
     password |-> candidate.password,
     session_id |-> candidate.session_id,
     geo_region |-> candidate.geo_region,
     geo_city |-> candidate.geo_city]

(***************************************************************************)
(* The state machine.                                                      *)
(***************************************************************************)
\* the threads of a process that call the manager
Threads == {"thread1", "thread2"}

\* a thread that is not inside a call
Idle == [pc |-> "idle", account |-> 0, branch |-> "-", proxy |-> NoneDict]

Init ==
    /\ config \in Configs
    /\ proxy_assignments = <<>>
    /\ location_history = <<>>
    /\ assignments_file = <<>>
    /\ history_file = <<>>
    /\ cached = NoneDict
    /\ calls = [th \in Threads |-> Idle]
    /\ now = 0
    /\ granted = [a \in Tenants |-> <<>>]
    /\ derived = [a \in Tenants |-> {}]
    /\ lastCall = [op |-> "init"]

\* the managers a process holds: sticky_manager, which the fix action builds
\* (enhanced_main.py line 392), and self.sticky_proxy_manager, which the test
\* action builds when it is first used and keeps (lines 619-621)
Managers == {"sticky_manager", "sticky_proxy_manager"}

\* what StickyProxyManager.__init__ loads (lines 27-28)
loaded_manager ==
    [assignments |-> load_proxy_assignments(assignments_file),
     history |-> load_location_history(history_file)]

\* the maps of manager m as a call on it finds them
manager_state(m) ==
    IF m = "sticky_manager"
    THEN [assignments |-> proxy_assignments, history |-> location_history]
    ELSE IF cached = NoneDict THEN loaded_manager ELSE cached

\* one call of get_consistent_proxy_for_account(account_id) on manager m, the
\* clock not beyond `bound`, the two saves meeting one of `writeInputs`
GetLeaseOn(m, account_id, bound, existingInputs, createInputs, writeInputs) ==
    /\ now < bound
    /\ \E mem \in {manager_state(m)} :
       \E existing \in (IF has_assignment(mem.assignments, account_id)
                        THEN existingInputs ELSE {NotProbed}) :
       \E c \in (IF /\ has_assignment(mem.assignments, account_id)
                    /\ test_proxy_connectivity_robust(mem.assignments[account_id],
                                                      existing)
                 THEN {[tiers |-> <<NotProbed, NotProbed, NotProbed>>,
                        located |-> LocatedNowhere]}
                 ELSE createInputs) :
          \E t \in {now + 1} :
          \E out \in {get_consistent_proxy_for_account(
                         account_id, config, mem.assignments, mem.history,
                         t, existing, c.tiers, c.located)} :
          \E wa \in (IF out.wrote_assignments THEN writeInputs ELSE {"none"}) :
          \E wh \in (IF out.wrote_history THEN writeInputs ELSE {"none"}) :
             /\ IF m = "sticky_manager"
                THEN /\ proxy_assignments' = out.assignments
                     /\ location_history' = out.history
                     /\ UNCHANGED cached
                ELSE /\ cached' = [assignments |-> out.assignments,
                                   history |-> out.history]
                     /\ UNCHANGED <<proxy_assignments, location_history>>
             \* save_proxy_assignments (line 109), save_location_history (line 453)
             /\ assignments_file' =
                   IF out.wrote_assignments
                   THEN save_proxy_assignments(assignments_file, out.assignments, wa)
                   ELSE assignments_file
             /\ history_file' =
                   IF out.wrote_history
                   THEN save_location_history(history_file, out.history, wh)
                   ELSE history_file
             /\ now' = IF out.result # NoneDict THEN t ELSE now
             /\ granted' = IF out.result # NoneDict
                           THEN [granted EXCEPT ![account_id] =
                                    Append(@, [proxy |-> out.result, at |-> t])]
                           ELSE granted
             /\ derived' = IF out.probes # <<>>
                           THEN [derived EXCEPT ![account_id] =
                                    @ \cup {tier1_pair(out.probes[1].candidate)}]
                           ELSE derived
             /\ lastCall' = [op |-> "getLease",
                             manager |-> m,
                             account |-> account_id,
                             fresh |-> lastCall.op = "restart",
                             had_lease |-> out.had_lease,
                             previous |-> out.previous,
                             existing_alive |-> out.existing_alive,
                             existing_responses |-> existing,
                             network |-> c.tiers,
                             located |-> c.located,
                             probes |-> out.probes,
                             verifications |-> out.verifications,
                             consistency |-> out.consistency,
                             writes |-> <<wa, wh>>,
                             result |-> out.result]
             /\ UNCHANGED <<config, calls>>

\* a call on the fix action's manager, every save written
GetLeaseWith(account_id, bound, existingInputs, createInputs) ==
    GetLeaseOn("sticky_manager", account_id, bound, existingInputs, createInputs,
               {"written"})

\* {16, 42}: every answer of the network, every operation
MainCreateInputs ==
    CreateInputs(ProbeInputs, {LocatedPhoenix, LocatedNowhere, LocatedAbroad})
    \cup {[tiers |-> <<ProbeTwo, ProbeOne, ProbeTwo>>, located |-> LocatedPhoenix],
          [tiers |-> <<ProbeDead, ProbeOne, ProbeTwo>>, located |-> LocatedNowhere]}

GetLease(account_id) ==
    GetLeaseWith(account_id, MaxClock, ProbeInputs, MainCreateInputs)

\* a report that trims the history it reads to the recent window
GetReportTrimming(account_id) ==
    /\ lastCall' = [op |-> "report",
                    account |-> account_id,
                    again |-> lastCall.op = "report" /\ lastCall.account = account_id,
                    result |-> get_account_location_report(location_history, account_id)]
    /\ location_history' =
          [a \in DOMAIN location_history |->
              IF a = account_id THEN LastN(location_history[a], 1)
              ELSE location_history[a]]
    /\ UNCHANGED <<config, proxy_assignments, assignments_file, history_file,
                   cached, calls, now, granted, derived>>

\* one call of get_account_location_report(account_id)
GetReport(account_id) ==
    /\ lastCall' = [op |-> "report",
                    account |-> account_id,
                    again |-> lastCall.op = "report" /\ lastCall.account = account_id,
                    result |-> get_account_location_report(location_history, account_id)]
    /\ UNCHANGED <<config, proxy_assignments, location_history, assignments_file,
                   history_file, cached, calls, now, granted, derived>>

\* the process ends and a new one builds a StickyProxyManager, which loads both
\* files (lines 27-28); the new process has no cached manager yet
Restart ==
    /\ proxy_assignments' = loaded_manager.assignments
    /\ location_history' = loaded_manager.history
    /\ cached' = NoneDict
    /\ lastCall' = [op |-> "restart"]
    /\ UNCHANGED <<config, assignments_file, history_file, calls, now, granted,
                   derived>>

Next ==
    \/ \E a \in Accounts : GetLease(a)
    \/ \E a \in Accounts : GetReport(a)
    \/ Restart

Spec == Init /\ [][Next]_vars

(***************************************************************************)
(* One account over a longer time: its Tier-1 candidate works or nothing    *)
(* does, the stored proxy lives or dies, the location services place it in  *)
(* Phoenix, in Dallas or nowhere.                                           *)
(***************************************************************************)
SingleAccounts == {42}

SingleCreateInputs ==
    {[tiers |-> <<p, NotProbed, NotProbed>>, located |-> v] :
         p \in {ProbeOne}, v \in {LocatedPhoenix, LocatedDallas, LocatedNowhere}}
    \cup {[tiers |-> <<ProbeDead, ProbeDead, ProbeDead>>, located |-> LocatedNowhere]}

GetLeaseSingle(account_id) ==
    GetLeaseWith(account_id, MaxSingleClock, {ProbeDead, ProbeTwo}, SingleCreateInputs)

NextSingle ==
    \/ \E a \in SingleAccounts : GetLeaseSingle(a)
    \/ \E a \in SingleAccounts : GetReport(a)

SpecSingle == Init /\ [][NextSingle]_vars

(***************************************************************************)
(* One account used again and again through a proxy that stays alive.      *)
(***************************************************************************)
LedgerAccounts == {16}

LedgerCreateInputs ==
    {[tiers |-> <<ProbeTwo, NotProbed, NotProbed>>, located |-> v] :
         v \in {LocatedPhoenix, LocatedNowhere}}

GetLeaseLedger(account_id) ==
    GetLeaseWith(account_id, MaxLedgerClock, {ProbeOne}, LedgerCreateInputs)

NextLedger ==
    \/ \E a \in LedgerAccounts : GetLeaseLedger(a)
    \/ \E a \in LedgerAccounts : GetReport(a)

SpecLedger == Init /\ [][NextLedger]_vars

(***************************************************************************)
(* Two managers of one process on the same two files: the fix action builds *)
(* a new sticky_manager each time it runs, the test action keeps            *)
(* self.sticky_proxy_manager.  Every save is written.                       *)
(***************************************************************************)
\* datetime.now() readings followed with two managers
MaxSharedClock == 3

SharedCreateInputs ==
    {[tiers |-> <<ProbeTwo, NotProbed, NotProbed>>, located |-> LocatedPhoenix],
     [tiers |-> <<ProbeDead, ProbeDead, ProbeDead>>, located |-> LocatedNowhere]}

\* the fix action is running: it has built its sticky_manager and every call
\* since was one of its loop (lines 462-484)
in_fix_action ==
    \/ lastCall.op = "new manager"
    \/ lastCall.op = "getLease" /\ lastCall.manager = "sticky_manager"

\* a call of the fix action's loop on its sticky_manager, or a call of the test
\* action on self.sticky_proxy_manager
GetLeaseShared(m, account_id) ==
    /\ m = "sticky_manager" => in_fix_action
    /\ GetLeaseOn(m, account_id, MaxSharedClock, {ProbeOne}, SharedCreateInputs,
                  {"written"})

\* the fix action starts: sticky_manager = StickyProxyManager(...) loads both
\* files, self.sticky_proxy_manager stays as it is
NewStickyManager ==
    /\ proxy_assignments' = loaded_manager.assignments
    /\ location_history' = loaded_manager.history
    /\ lastCall' = [op |-> "new manager"]
    /\ UNCHANGED <<config, assignments_file, history_file, cached, calls, now,
                   granted, derived>>

NextShared ==
    \/ \E m \in Managers : \E a \in Accounts : GetLeaseShared(m, a)
    \/ NewStickyManager

SpecShared == Init /\ [][NextShared]_vars

(***************************************************************************)
(* One manager whose saves may fail: open() raises, or the dump stops after *)
(* open() truncated the file.  The process may end and start again.         *)
(***************************************************************************)
\* datetime.now() readings followed with failing saves
MaxFaultClock == 3

FaultCreateInputs ==
    {[tiers |-> <<ProbeTwo, NotProbed, NotProbed>>, located |-> LocatedPhoenix],
     [tiers |-> <<ProbeDead, ProbeDead, ProbeDead>>, located |-> LocatedNowhere]}

GetLeaseFaulty(account_id) ==
    GetLeaseOn("sticky_manager", account_id, MaxFaultClock, {ProbeOne, ProbeDead},
               FaultCreateInputs, WriteOutcomes)

NextFaults ==
    \/ \E a \in Accounts : GetLeaseFaulty(a)
    \/ Restart

SpecFaults == Init /\ [][NextFaults]_vars

(***************************************************************************)
(* One manager whose process may die inside a save: open(file, 'w') has     *)
(* truncated the file and json.dump has not finished.  A new process then   *)
(* starts on what is on disk.                                               *)
(***************************************************************************)
\* datetime.now() readings followed with crashes
MaxCrashClock == 3

GetLeaseCrashing(account_id) ==
    GetLeaseOn("sticky_manager", account_id, MaxCrashClock, {ProbeOne, ProbeDead},
               FaultCreateInputs, {"written"})

\* the saves a call reaches, in the order it reaches them (lines 109, 453)
saves_of(out) ==
    (IF out.wrote_assignments THEN <<"assignments">> ELSE <<>>)
    \o (IF out.wrote_history THEN <<"history">> ELSE <<>>)

\* a call of get_consistent_proxy_for_account(account_id) during which the
\* process dies inside its k-th save; the saves before it are on disk, the
\* file being written is cut short, and the next process loads both files
CrashInSave(account_id) ==
    /\ now < MaxCrashClock
    /\ \E existing \in (IF has_assignment(proxy_assignments, account_id)
                        THEN {ProbeOne, ProbeDead} ELSE {NotProbed}) :
       \E c \in (IF /\ has_assignment(proxy_assignments, account_id)
                    /\ test_proxy_connectivity_robust(proxy_assignments[account_id],
                                                      existing)
                 THEN {[tiers |-> <<NotProbed, NotProbed, NotProbed>>,
                        located |-> LocatedNowhere]}
                 ELSE FaultCreateInputs) :
          \E out \in {get_consistent_proxy_for_account(
                         account_id, config, proxy_assignments, location_history,
                         now + 1, existing, c.tiers, c.located)} :
          \E k \in 1..Len(saves_of(out)) :
             /\ assignments_file' =
                   IF saves_of(out)[k] = "assignments" THEN Corrupt
                   ELSE IF out.wrote_assignments
                        THEN save_proxy_assignments(assignments_file, out.assignments,
                                                    "written")
                        ELSE assignments_file
             /\ history_file' =
                   IF saves_of(out)[k] = "history" THEN Corrupt ELSE history_file
             /\ proxy_assignments' = load_proxy_assignments(assignments_file')
             /\ location_history' = load_location_history(history_file')
             /\ cached' = NoneDict
             /\ lastCall' = [op |-> "crash",
                             account |-> account_id,
                             during |-> saves_of(out)[k],
                             old |-> [assignments |-> assignments_file,
                                      history |-> history_file],
                             new |-> [assignments |-> out.assignments,
                                      history |-> out.history]]
             /\ UNCHANGED <<config, calls, now, granted, derived>>

NextCrash ==
    \/ \E a \in Accounts : GetLeaseCrashing(a)
    \/ \E a \in Accounts : CrashInSave(a)

SpecCrash == Init /\ [][NextCrash]_vars

(***************************************************************************)
(* Two threads calling get_consistent_proxy_for_account on one manager.    *)
(* The method holds no lock; the probe and the creation wait for the        *)
(* network, so another thread runs between the steps below.                 *)
(***************************************************************************)
\* datetime.now() readings followed with two threads
MaxRaceClock == 4

RaceCreateInputs ==
    {[tiers |-> <<ProbeTwo, NotProbed, NotProbed>>, located |-> LocatedPhoenix],
     [tiers |-> <<ProbeOne, NotProbed, NotProbed>>, located |-> LocatedNowhere],
     [tiers |-> <<ProbeDead, ProbeDead, ProbeDead>>, located |-> LocatedNowhere]}

\* lines 85-101: the thread looks the account up and probes the proxy it finds
CheckAssignment(th, account_id) ==
    /\ calls[th].pc = "idle"
    /\ now < MaxRaceClock
    /\ IF has_assignment(proxy_assignments, account_id)
       THEN \E existing \in {ProbeOne, ProbeDead} :
               IF test_proxy_connectivity_robust(proxy_assignments[account_id], existing)
               THEN calls' = [calls EXCEPT ![th] =
                                 [pc |-> "log", account |-> account_id,
                                  branch |-> "Leased",
                                  proxy |-> proxy_assignments[account_id]]]
               ELSE calls' = [calls EXCEPT ![th] =
                                 [pc |-> "create", account |-> account_id,
                                  branch |-> "Replace", proxy |-> NoneDict]]
       ELSE calls' = [calls EXCEPT ![th] =
                         [pc |-> "create", account |-> account_id,
                          branch |-> "NoLease", proxy |-> NoneDict]]
    /\ UNCHANGED <<config, proxy_assignments, location_history, assignments_file,
                   history_file, cached, now, granted, derived, lastCall>>

\* line 104: the thread creates a proxy; lines 120-121: it returns None
CreateProxy(th) ==
    /\ calls[th].pc = "create"
    /\ now < MaxRaceClock
    /\ \E c \in RaceCreateInputs :
       \E made \in {create_sticky_proxy_for_account_fixed(
                       calls[th].account, config, now + 1, c.tiers, c.located)} :
          IF should_save(made.proxy)
          THEN /\ calls' = [calls EXCEPT ![th].pc = "store", ![th].proxy = made.proxy]
               /\ now' = now + 1
          ELSE /\ calls' = [calls EXCEPT ![th].pc = "returned",
                                         ![th].proxy = NoneDict]
               /\ now' = now
    /\ UNCHANGED <<config, proxy_assignments, location_history, assignments_file,
                   history_file, cached, granted, derived, lastCall>>

\* lines 108-109: the thread stores the proxy it created and saves the map
StoreProxy(th) ==
    /\ calls[th].pc = "store"
    /\ proxy_assignments' = store_assignment(proxy_assignments, calls[th].account,
                                             calls[th].proxy)
    /\ assignments_file' = save_proxy_assignments(assignments_file,
                                                  proxy_assignments', "written")
    /\ calls' = [calls EXCEPT ![th].pc = "log"]
    /\ UNCHANGED <<config, location_history, history_file, cached, now, granted,
                   derived, lastCall>>

\* lines 98-99, 112-118: the thread logs the usage and returns the proxy
LogAndReturn(th) ==
    /\ calls[th].pc = "log"
    /\ now < MaxRaceClock
    /\ location_history' = log_location_usage(location_history, calls[th].account,
                                              calls[th].proxy, now + 1)
    /\ history_file' = save_location_history(history_file, location_history',
                                             "written")
    /\ now' = now + 1
    /\ granted' = [granted EXCEPT ![calls[th].account] =
                      Append(@, [proxy |-> calls[th].proxy, at |-> now + 1])]
    /\ calls' = [calls EXCEPT ![th].pc = "returned"]
    /\ UNCHANGED <<config, proxy_assignments, assignments_file, cached, derived,
                   lastCall>>

\* the caller has its answer; the thread may call again
Finish(th) ==
    /\ calls[th].pc = "returned"
    /\ calls' = [calls EXCEPT ![th] = Idle]
    /\ UNCHANGED <<config, proxy_assignments, location_history, assignments_file,
                   history_file, cached, now, granted, derived, lastCall>>

NextRace ==
    \/ \E th \in Threads : \E a \in Accounts : CheckAssignment(th, a)
    \/ \E th \in Threads : CreateProxy(th)
    \/ \E th \in Threads : StoreProxy(th)
    \/ \E th \in Threads : LogAndReturn(th)
    \/ \E th \in Threads : Finish(th)

SpecRace == Init /\ [][NextRace]_vars

(***************************************************************************)
(* Properties.                                                             *)
(***************************************************************************)
\* the resource configuration of a proxy: how the resource is reached
resource_configuration(proxy) ==
    [endpoint |-> proxy.endpoint, username |-> proxy.username,
     password |-> proxy.password]

Min(x, y) == IF x <= y THEN x ELSE y

\* the step is a call of get_consistent_proxy_for_account(a)
LeaseStep(a) == lastCall'.op = "getLease" /\ lastCall'.account = a

\* C1 (stickiness): a call for an account whose stored proxy is there and does
\* not fail its probe returns that very proxy (same endpoint, username,
\* password, verified city and region, as the call before returned), leaves the
\* assignments in memory and on file as they were, and changes nothing but the
\* account's usage history, which gains one record at its end (the oldest
\* leaving at the cap).
C1_Stickiness ==
    [][\A a \in Accounts :
          (LeaseStep(a) /\ a \in DOMAIN proxy_assignments
                        /\ lastCall'.existing_alive # "fail")
          => LET old == location_history[a]
                 new == location_history'[a]
                 kept == Len(new) - 1
             IN /\ lastCall'.result = proxy_assignments[a]
                /\ granted[a][Len(granted[a])].proxy = lastCall'.result
                /\ proxy_assignments' = proxy_assignments
                /\ assignments_file' = assignments_file
                /\ DOMAIN location_history' = DOMAIN location_history
                /\ \A b \in DOMAIN location_history \ {a} :
                      location_history'[b] = location_history[b]
                /\ Len(new) = Min(Len(old) + 1, HistoryCap)
                /\ \A i \in 1..kept : new[i] = old[Len(old) - kept + i]
                /\ new[Len(new)].city = proxy_assignments[a].verified_city
                /\ new[Len(new)].region = proxy_assignments[a].verified_region
      ]_vars

\* C1 witness: the third call in a row that returns the same stored proxy
C1_Witness ==
    /\ lastCall.op = "getLease"
    /\ lastCall.existing_alive = "pass"
    /\ LET g == granted[lastCall.account]
       IN /\ Len(g) >= 3
          /\ g[Len(g)].proxy = g[Len(g) - 1].proxy
          /\ g[Len(g)].proxy = g[Len(g) - 2].proxy

\* C2 (determinism): whatever calls were made, in this process or in earlier
\* ones, all derivations for one account gave one and the same Tier-1 pair:
\* same endpoint, credential string, session id, target city and region.
C2_Determinism ==
    \A a \in Accounts : Cardinality(derived[a]) <= 1

\* C2 witness: the first call of a new process derives the candidates of an
\* account whose proxy an earlier process derived and stored
C2_Witness ==
    /\ lastCall.op = "getLease"
    /\ lastCall.fresh
    /\ lastCall.had_lease
    /\ lastCall.probes # <<>>
    /\ derived[lastCall.account] # {}

\* C3 as claimed: when the stored proxy fails its probe, the call returns a
\* proxy of another resource configuration than the failed one, and the call
\* after it does not return the failed proxy.
C3_Original ==
    [][\A a \in Accounts :
          /\ (LeaseStep(a) /\ a \in DOMAIN proxy_assignments
                           /\ lastCall'.existing_alive = "fail")
             => /\ lastCall'.result # NoneDict
                /\ resource_configuration(lastCall'.result)
                      # resource_configuration(proxy_assignments[a])
          /\ (LeaseStep(a) /\ lastCall.op = "getLease" /\ lastCall.account = a
                           /\ lastCall.existing_alive = "fail")
             => lastCall'.result # lastCall.previous
      ]_vars

\* no account is handed a proxy again after it was handed another one
NeverBack ==
    \A a \in Accounts :
       \A i, j, k \in 1..Len(granted[a]) :
          (i < j /\ j < k /\ granted[a][i].proxy # granted[a][j].proxy)
          => granted[a][k].proxy # granted[a][i].proxy

\* C3 amended: when the stored proxy fails its probe and a candidate passes,
\* the call returns a proxy built in this call (created now, other than the
\* failed one, though its resource configuration may be the same), which takes
\* the failed one's place in the assignments, and no later call returns the
\* failed one; when no candidate passes, the call returns None and the failed
\* proxy stays assigned.
C3_Replacement ==
    /\ [][\A a \in Accounts :
             (LeaseStep(a) /\ a \in DOMAIN proxy_assignments
                           /\ lastCall'.existing_alive = "fail")
             => IF \E i \in 1..Len(lastCall'.probes) : lastCall'.probes[i].alive
                THEN /\ lastCall'.result # NoneDict
                     /\ lastCall'.result # proxy_assignments[a]
                     /\ lastCall'.result.created_at = now'
                     /\ lastCall'.result.created_at > proxy_assignments[a].created_at
                     /\ proxy_assignments'[a] = lastCall'.result
                     /\ assignments_file'[a] = lastCall'.result
                ELSE /\ lastCall'.result = NoneDict
                     /\ proxy_assignments' = proxy_assignments
                     /\ assignments_file' = assignments_file
         ]_vars
    /\ []NeverBack

\* C3 witness: a proxy replaced by one of the same resource configuration, and
\* the replacement returned again by the next call
C3_Witness ==
    /\ lastCall.op = "getLease"
    /\ lastCall.existing_alive = "pass"
    /\ LET g == granted[lastCall.account]
       IN /\ Len(g) >= 3
          /\ g[Len(g)].proxy = g[Len(g) - 1].proxy
          /\ g[Len(g) - 1].proxy # g[Len(g) - 2].proxy
          /\ resource_configuration(g[Len(g) - 1].proxy)
                = resource_configuration(g[Len(g) - 2].proxy)

\* C4 (one lease per tenant): the assignments, in memory and on file, have an
\* entry for exactly the accounts that a call has handed a proxy, and that
\* entry is the proxy handed last.
C4_OnePerTenant ==
    /\ DOMAIN proxy_assignments = {a \in Accounts : granted[a] # <<>>}
    /\ DOMAIN assignments_file = {a \in Accounts : granted[a] # <<>>}
    /\ \A a \in DOMAIN proxy_assignments :
          /\ proxy_assignments[a] = granted[a][Len(granted[a])].proxy
          /\ proxy_assignments[a] # NoneDict

\* C4 witness: one account has its proxy, the call for the other has just failed
C4_Witness ==
    /\ lastCall.op = "getLease"
    /\ lastCall.result = NoneDict
    /\ lastCall.probes # <<>>
    /\ lastCall.account \notin DOMAIN proxy_assignments
    /\ Cardinality(DOMAIN proxy_assignments) = 1

\* the call probed all three configurations and each failed
AllTiersFailed(call) ==
    /\ Len(call.probes) = 3
    /\ \A i \in 1..3 : ~call.probes[i].alive

\* C5 (full exhaustion): a call in which all three configurations fail the
\* probe returns None and leaves the assignments, in memory and on file, and
\* the usage history exactly as they were.
C5_Exhaustion ==
    [][\A a \in Accounts :
          (LeaseStep(a) /\ AllTiersFailed(lastCall'))
          => /\ lastCall'.result = NoneDict
             /\ proxy_assignments' = proxy_assignments
             /\ assignments_file' = assignments_file
             /\ location_history' = location_history
             /\ history_file' = history_file
      ]_vars

\* C5 witness: every configuration failed for an account that has a proxy stored
C5_Witness ==
    /\ lastCall.op = "getLease"
    /\ AllTiersFailed(lastCall)
    /\ lastCall.had_lease
    /\ lastCall.account \in DOMAIN proxy_assignments

\* C6 (ledger boundedness): an account's usage history never holds more than
\* 50 records, and it holds the most recent records ever appended for the
\* account, in the order they were appended: all of them up to 50, the last 50
\* beyond (after 60 appends, the 11th to the 60th).
C6_LedgerBounded ==
    \A a \in Accounts :
       LET n == Len(granted[a])
           h == IF a \in DOMAIN location_history THEN location_history[a] ELSE <<>>
       IN /\ Len(h) <= 50
          /\ Len(h) = Min(n, 50)
          /\ \A i \in 1..Len(h) :
                /\ h[i].timestamp = granted[a][n - Len(h) + i].at
                /\ h[i].city = granted[a][n - Len(h) + i].proxy.verified_city
                /\ h[i].session_id = granted[a][n - Len(h) + i].proxy.session_id

\* C6 witness: 60 records were appended, the history holds the 11th to the 60th
C6_Witness ==
    \E a \in LedgerAccounts :
       /\ Len(granted[a]) = 60
       /\ Len(location_history[a]) = 50
       /\ location_history[a][1].timestamp = 11
       /\ location_history[a][50].timestamp = 60

\* the (city, region) pairs of a sequence of usage records
Pairs(records) == {<<records[i].city, records[i].region>> : i \in 1..Len(records)}

\* 1 distinct pair is LOW, 2 are MEDIUM, 3 or more are HIGH
RiskOf(n) == IF n >= 3 THEN "HIGH" ELSE IF n = 2 THEN "MEDIUM" ELSE "LOW"

\* the last operation is a report made from a stored history
Reported == lastCall.op = "report" /\ "error" \notin DOMAIN lastCall.result

\* C7 as claimed: the report's risk level follows the number of distinct
\* (city, region) pairs among the last 5 records of the account.
C7_Original ==
    Reported =>
       lastCall.result.consistency_risk
          = RiskOf(Cardinality(Pairs(LastN(location_history[lastCall.account], 5))))

\* C7 amended: the report's risk level follows the number of distinct (city,
\* region) pairs among all the records the account's history holds (at most
\* the 50 most recent), which is the report's unique_locations: 1 is LOW, 2
\* are MEDIUM, 3 or more are HIGH.
C7_RiskOverWholeHistory ==
    Reported =>
       LET n == Cardinality(Pairs(location_history[lastCall.account]))
       IN /\ lastCall.result.unique_locations = n
          /\ lastCall.result.total_logins = Len(location_history[lastCall.account])
          /\ lastCall.result.consistency_risk = RiskOf(n)

\* C7 witness: the last 5 records are all from one place, an older one is from
\* another, and the report says MEDIUM
C7_Witness ==
    /\ Reported
    /\ Len(location_history[lastCall.account]) > 5
    /\ Cardinality(Pairs(LastN(location_history[lastCall.account], 5))) = 1
    /\ lastCall.result.consistency_risk = "MEDIUM"

\* the last operation is a call that created a proxy: one candidate passed the
\* probe and the location services were asked about it
Created ==
    /\ lastCall.op = "getLease"
    /\ lastCall.probes # <<>>
    /\ lastCall.probes[Len(lastCall.probes)].alive
    /\ Len(lastCall.verifications) = 1

\* C8 (happy path): an account without a proxy, the Tier-1 probe passing and
\* the verifier answering verified with a city and a region: the proxy
\* returned is the one stored, its verified city and region are the verifier's
\* and us_verified is true.
C8_HappyPath ==
    (/\ Created
     /\ ~lastCall.had_lease
     /\ Len(lastCall.probes) = 1
     /\ lastCall.verifications[1].verified)
    => LET v == lastCall.verifications[1]
           r == lastCall.result
       IN /\ r # NoneDict
          /\ proxy_assignments[lastCall.account] = r
          /\ r.verified_city = v.city
          /\ r.verified_region = v.region
          /\ r.us_verified = TRUE

\* C8 witness: account 42, whose target is Tempe, is verified in Phoenix, Arizona
C8_Witness ==
    /\ Created
    /\ ~lastCall.had_lease
    /\ Len(lastCall.probes) = 1
    /\ lastCall.account = 42
    /\ lastCall.verifications[1].verified
    /\ lastCall.verifications[1].city = "Phoenix"
    /\ lastCall.result.geo_city = "Tempe"
    /\ lastCall.result.verified_city = "Phoenix"
    /\ lastCall.result.verified_region = "Arizona"

\* C9 (inconclusive but alive): a candidate passes the probe and the verifier
\* answers not verified: the proxy is still returned and stored, with
\* us_verified false, the account's requested city and region as verified city
\* and region (never "Unknown"), and the note that verification failed.
C9_AssumedLocation ==
    (Created /\ ~lastCall.verifications[1].verified)
    => LET r == lastCall.result
           target == reliable_cities[(lastCall.account % 10) + 1]
       IN /\ r # NoneDict
          /\ proxy_assignments[lastCall.account] = r
          /\ assignments_file[lastCall.account] = r
          /\ r.us_verified = FALSE
          /\ r.verified_city = title(target.city)
          /\ r.verified_region = title(target.region)
          /\ r.verified_city # "Unknown" /\ r.verified_region # "Unknown"
          /\ "note" \in DOMAIN r

\* C9 witness: the Tier-1 probe of account 16 passes, the location services
\* answer nothing usable, and the proxy is stored as Miami, Florida
C9_Witness ==
    /\ Created
    /\ ~lastCall.verifications[1].verified
    /\ lastCall.account = 16
    /\ Len(lastCall.probes) = 1
    /\ proxy_assignments[16].verified_city = "Miami"
    /\ proxy_assignments[16].verified_region = "Florida"

\* C10 (the report only reads): a report changes neither the assignments nor
\* the usage history, in memory or on file, and a report that follows a report
\* for the same account returns what that one returned.
C10_ReportReadOnly ==
    [][lastCall'.op = "report"
       => /\ proxy_assignments' = proxy_assignments
          /\ location_history' = location_history
          /\ assignments_file' = assignments_file
          /\ history_file' = history_file
          /\ (lastCall.op = "report" /\ lastCall.account = lastCall'.account)
             => lastCall'.result = lastCall.result
      ]_vars

\* C10 witness: the second of two reports in a row on a stored history
C10_Witness ==
    /\ Reported
    /\ lastCall.again
    /\ lastCall.result.total_logins >= 2

\* C11 as claimed (location permanence): every proxy a call returns for an
\* account has the verified city and region of the first one returned for it.
C11_LocationPermanence ==
    \A a \in Accounts :
       \A i \in 1..Len(granted[a]) :
          /\ granted[a][i].proxy.verified_city = granted[a][1].proxy.verified_city
          /\ granted[a][i].proxy.verified_region = granted[a][1].proxy.verified_region

\* what a call for an account without a proxy returns when the credentials
\* are there and every configuration fails the probe
exhausted_result(account_id) ==
    get_consistent_proxy_for_account(account_id, ValidConfig, <<>>, <<>>, 1,
                                     NotProbed, <<ProbeDead, ProbeDead, ProbeDead>>,
                                     LocatedNowhere).result

\* the last operation is a call made with the username or the password missing
ConfigFailed ==
    /\ lastCall.op = "getLease"
    /\ (config.SOAX_USERNAME \in {None, ""} \/ config.SOAX_PASSWORD \in {None, ""})

\* C12 as claimed: what a call returns when the credentials are missing
\* differs from what it returns when every configuration fails the probe.
C12_Original ==
    ConfigFailed => lastCall.result # exhausted_result(lastCall.account)

\* C13 (stored means probed): whenever an account's entry in the assignments
\* appears or changes, the step is a call for that account in which the
\* candidate the entry was built from passed the probe - at least one test
\* service answered through it - and no candidate that failed, or was not
\* probed, is stored.
C13_StoredPassedProbe ==
    [][\A a \in Accounts :
          (/\ a \in DOMAIN proxy_assignments'
           /\ (a \notin DOMAIN proxy_assignments
               \/ proxy_assignments'[a] # proxy_assignments[a]))
          => /\ LeaseStep(a)
             /\ lastCall'.probes # <<>>
             /\ LET p == lastCall'.probes[Len(lastCall'.probes)]
                IN /\ p.alive
                   /\ successful_services(p.responses) >= 1
                   /\ resource_configuration(p.candidate)
                         = resource_configuration(proxy_assignments'[a])
                   /\ proxy_assignments'[a].config_used = p.candidate.config_used
             /\ \A i \in 1..(Len(lastCall'.probes) - 1) :
                   /\ ~lastCall'.probes[i].alive
                   /\ resource_configuration(lastCall'.probes[i].candidate)
                         # resource_configuration(proxy_assignments'[a])
             /\ proxy_assignments'[a] = lastCall'.result
      ]_vars

\* C13 witness: the stored proxy died, Tier 1 failed its probe, Tier 2 passed
\* and is what the assignments hold now
C13_Witness ==
    /\ lastCall.op = "getLease"
    /\ lastCall.existing_alive = "fail"
    /\ Len(lastCall.probes) = 2
    /\ lastCall.probes[2].alive
    /\ proxy_assignments[lastCall.account] = lastCall.result
    /\ lastCall.result.config_used = lastCall.probes[2].candidate.config_used

\* the accounts that have an entry in the assignments file
persisted_accounts(file) == DOMAIN load_proxy_assignments(file)

\* C14 as claimed (never deleted): an account that has an entry in the
\* assignments file has one after every step, whichever manager takes it.
C14_NeverDeleted ==
    [][persisted_accounts(assignments_file) \subseteq persisted_accounts(assignments_file')]_vars

\* the last proxy a call returned for account a
last_granted(a) == granted[a][Len(granted[a])].proxy

\* C15 as claimed (reads reflect the last put, across managers): after a
\* manager has stored a proxy for one account, the assignments file still
\* holds, for every other account, the proxy last stored for it by either
\* manager, and a manager built now would load it.
C15_LastPutPersisted ==
    (lastCall.op = "getLease" /\ lastCall.writes[1] = "written")
    => \A a \in Accounts \ {lastCall.account} :
          granted[a] # <<>>
          => /\ a \in persisted_accounts(assignments_file)
             /\ loaded_manager.assignments[a] = last_granted(a)

\* C16 as claimed: when the assignments file or the history file is corrupt
\* as a process starts, the call that follows takes the path of an account
\* without a proxy.
C16_Original ==
    [][\A a \in Accounts :
          (/\ lastCall.op = "restart"
           /\ (assignments_file = Corrupt \/ history_file = Corrupt)
           /\ LeaseStep(a))
          => /\ ~lastCall'.had_lease
             /\ lastCall'.existing_alive = "not probed"
      ]_vars

\* C16 amended: each file degrades on its own.  A process that starts on a
\* corrupt file holds the empty map for that file and what the other file
\* holds for the other; after a corrupt assignments file the call that
\* follows finds no proxy for any account and creates one, which is then the
\* only entry; after a corrupt history file alone the assignments are all
\* there and the call probes the stored proxy, its record starting a new
\* history.
C16_CorruptFileIsEmptyMap ==
    /\ [](lastCall.op = "restart"
          => /\ proxy_assignments
                   = (IF assignments_file = Corrupt THEN <<>> ELSE assignments_file)
             /\ location_history
                   = (IF history_file = Corrupt THEN <<>> ELSE history_file))
    /\ [][\A a \in Accounts :
             (lastCall.op = "restart" /\ LeaseStep(a))
             => /\ assignments_file = Corrupt
                   => /\ ~lastCall'.had_lease
                      /\ lastCall'.existing_alive = "not probed"
                      /\ lastCall'.result # NoneDict
                            => DOMAIN proxy_assignments' = {a}
                /\ assignments_file # Corrupt
                   => lastCall'.had_lease = (a \in DOMAIN assignments_file)
                /\ (history_file = Corrupt /\ lastCall'.result # NoneDict)
                   => /\ DOMAIN location_history' = {a}
                      /\ Len(location_history'[a]) = 1
         ]_vars

\* C16 witness: the process started on an assignments file that is not JSON,
\* and the call for an account that had a proxy before has created another
C16_Witness ==
    /\ lastCall.op = "getLease"
    /\ lastCall.fresh
    /\ ~lastCall.had_lease
    /\ lastCall.writes[1] = "refused"
    /\ assignments_file = Corrupt
    /\ Len(granted[lastCall.account]) = 2
    /\ lastCall.result # NoneDict
    /\ DOMAIN proxy_assignments = {lastCall.account}

\* the last probe of the last call: the candidate that passed, if one did
last_probe == lastCall.probes[Len(lastCall.probes)]

\* C17 as claimed (a quorum per call site): the stored proxy is accepted when
\* at least 1 test service answers through it, a new proxy is created only
\* when at least 2 answered through its candidate.
C17_Original ==
    lastCall.op = "getLease"
    => /\ (lastCall.had_lease
           => (lastCall.existing_alive = "pass"
               <=> successful_services(lastCall.existing_responses) >= 1))
       /\ (lastCall.probes # <<>> /\ lastCall.result # NoneDict)
          => successful_services(last_probe.responses) >= 2

\* C17 amended: one probe, one threshold.  The stored proxy is accepted, and
\* a candidate passes and becomes the new proxy, exactly when at least 1 of
\* the 4 test services answers through it.
C17_QuorumOne ==
    lastCall.op = "getLease"
    => /\ (lastCall.had_lease
           => (lastCall.existing_alive = "pass"
               <=> successful_services(lastCall.existing_responses) >= 1))
       /\ \A i \in 1..Len(lastCall.probes) :
             lastCall.probes[i].alive
             <=> successful_services(lastCall.probes[i].responses) >= 1
       /\ (lastCall.probes # <<>>
           => (lastCall.result # NoneDict <=> last_probe.alive))

\* C17 witness: a new proxy created and stored after a single test service
\* answered through its candidate
C17_Witness ==
    /\ lastCall.op = "getLease"
    /\ lastCall.probes # <<>>
    /\ lastCall.result # NoneDict
    /\ successful_services(last_probe.responses) = 1
    /\ proxy_assignments[lastCall.account] = lastCall.result

\* C18 (the tiers in order, the first that passes wins): the candidates a call
\* probes are Tier 1, Tier 2, Tier 3 in this order, each probed only after all
\* before it failed; the proxy returned is built from the first that passed,
\* no tier after it is probed, and None is returned only after all three failed.
C18_SequentialFallback ==
    (lastCall.op = "getLease" /\ lastCall.probes # <<>>)
    => LET n == Len(lastCall.probes)
           configs == proxy_configs(lastCall.account, config)
       IN /\ n <= Len(configs)
          /\ \A i \in 1..n :
                /\ lastCall.probes[i].candidate.config_used = configs[i].description
                /\ lastCall.probes[i].candidate.username = configs[i].username
                /\ lastCall.probes[i].responses = lastCall.network[i]
          /\ \A i \in 1..(n - 1) : ~lastCall.probes[i].alive
          /\ IF last_probe.alive
             THEN /\ lastCall.result # NoneDict
                  /\ lastCall.result.config_used = configs[n].description
                  /\ lastCall.result.username = configs[n].username
                  /\ proxy_assignments[lastCall.account] = lastCall.result
             ELSE /\ n = Len(configs)
                  /\ lastCall.result = NoneDict

\* C18 witness: Tier 1 failed, Tier 2 passed and is returned, and Tier 3, which
\* would have passed as well, was not probed
C18_Witness ==
    /\ lastCall.op = "getLease"
    /\ Len(lastCall.probes) = 2
    /\ ~lastCall.probes[1].alive
    /\ lastCall.probes[2].alive
    /\ probe_loop(lastCall.network[3], 1, 0)
    /\ lastCall.result.config_used = "Generic US format"

\* the call for account a that follows, made for an account without a proxy
\* and meeting the same answers of the network
as_no_lease(a) ==
    get_consistent_proxy_for_account(a, config,
                                     discard_assignment(proxy_assignments, a),
                                     location_history, now + 1, NotProbed,
                                     lastCall'.network, lastCall'.located)

\* the step is a call for account a whose stored proxy fails its probe
FailedRecheck(a) ==
    /\ LeaseStep(a)
    /\ a \in DOMAIN proxy_assignments
    /\ lastCall'.existing_alive = "fail"

\* C19 as claimed (discard on liveness failure): when the stored proxy fails
\* its probe, it is not in the assignments when the call returns.
C19_Original ==
    [][\A a \in Accounts :
          FailedRecheck(a)
          => \/ a \notin DOMAIN proxy_assignments'
             \/ proxy_assignments'[a] # proxy_assignments[a]
      ]_vars

\* C19 amended: when the stored proxy fails its probe the call creates a proxy
\* as it does for an account without one - same candidates probed, same
\* verification, same result, same usage record - but the failed proxy is not
\* discarded: it leaves the assignments only by being replaced, and when no
\* candidate passes it is still there, in memory and on file, as the call
\* returns None.
C19_FailedLeaseKept ==
    [][\A a \in Accounts :
          FailedRecheck(a)
          => /\ lastCall'.result = as_no_lease(a).result
             /\ lastCall'.probes = as_no_lease(a).probes
             /\ lastCall'.verifications = as_no_lease(a).verifications
             /\ location_history' = as_no_lease(a).history
             /\ IF lastCall'.result # NoneDict
                THEN /\ proxy_assignments'[a] = lastCall'.result
                     /\ proxy_assignments' = as_no_lease(a).assignments
                ELSE /\ proxy_assignments' = proxy_assignments
                     /\ assignments_file' = assignments_file
                     /\ a \in DOMAIN proxy_assignments'
      ]_vars

\* C19 witness: the stored proxy failed its probe, so did all three
\* configurations, and the failed proxy is still the account's entry
C19_Witness ==
    /\ lastCall.op = "getLease"
    /\ lastCall.existing_alive = "fail"
    /\ AllTiersFailed(lastCall)
    /\ lastCall.result = NoneDict
    /\ proxy_assignments[lastCall.account] = lastCall.previous
    /\ assignments_file[lastCall.account] = lastCall.previous

\* C20 as claimed (memory and disk agree): when a call returns, the
\* assignments file holds the manager's assignments and the history file its
\* usage history, also when a save failed.
C20_MemoryEqualsDisk ==
    lastCall.op = "getLease"
    => /\ assignments_file = proxy_assignments
       /\ history_file = location_history

\* C21 as claimed (crash-safe writes): after the process died inside a save,
\* each file still holds the complete map it held before the call or the
\* complete map the call was writing.
C21_CrashSafe ==
    lastCall.op = "crash"
    => /\ assignments_file \in {lastCall.old.assignments, lastCall.new.assignments}
       /\ history_file \in {lastCall.old.history, lastCall.new.history}

\* two threads are inside a call, or have just returned from one, for the
\* same account
SameTenant(t1, t2) ==
    /\ t1 # t2
    /\ calls[t1].pc # "idle"
    /\ calls[t2].pc # "idle"
    /\ calls[t1].account = calls[t2].account

\* C22 as claimed (same-tenant race): of two calls for an account without a
\* proxy, however their steps interleave, at most one takes the creating
\* path, and once both have returned each proxy returned is the one the
\* assignments hold for the account.
C22_NoDoubleCreate ==
    \A t1, t2 \in Threads :
       SameTenant(t1, t2)
       => /\ ~(calls[t1].branch = "NoLease" /\ calls[t2].branch = "NoLease")
          /\ (calls[t1].pc = "returned" /\ calls[t2].pc = "returned")
             => \A th \in {t1, t2} :
                   calls[th].proxy # NoneDict
                   => calls[th].proxy = proxy_assignments[calls[th].account]

(***************************************************************************)
(* One account whose id is passed once as the integer and once as the text *)
(* with a trailing blank.  The stored proxy stays alive, so nothing is      *)
(* replaced.                                                                *)
(***************************************************************************)
MaxFormClock == 4

FormCreateInputs ==
    {[tiers |-> <<ProbeOne, NotProbed, NotProbed>>, located |-> v] :
         v \in {LocatedPhoenix, LocatedNowhere}}
    \cup {[tiers |-> <<ProbeDead, ProbeDead, ProbeDead>>, located |-> LocatedNowhere]}

GetLeaseForms(account_id) ==
    GetLeaseWith(account_id, MaxFormClock, {ProbeTwo}, FormCreateInputs)

NextForms ==
    \/ \E a \in FormAccounts : GetLeaseForms(a)
    \/ \E a \in FormAccounts : GetLeaseForms(WithTrailingSpace(a))
    \/ \E a \in FormAccounts : GetReport(a)

SpecForms == Init /\ [][NextForms]_vars

\* C23: the integer id and the same id as text with a trailing blank are one
\* tenant: one key in the assignments, one history, one session id, one
\* first candidate, and the proxy handed out under one form is the proxy
\* handed out under the other.
C23_SameTenant ==
    \A a \in FormAccounts :
        LET p == WithTrailingSpace(a)
        IN (granted[a] # <<>> /\ granted[p] # <<>>)
           => /\ account_key(a) = account_key(p)
              /\ Cardinality(DOMAIN proxy_assignments) = 1
              /\ Cardinality(DOMAIN location_history) = 1
              /\ last_granted(a).session_id = last_granted(p).session_id
              /\ derived[a] = derived[p]
              /\ last_granted(a) = last_granted(p)

\* the records the history holds for account a
records_of(history, a) == IF a \in DOMAIN history THEN history[a] ELSE <<>>

\* C24 (usage recording): a call that returns a proxy appends one record to
\* the history of its account, carrying the returned proxy's verified city,
\* region and ip, its session id and its configuration; a call that returns
\* None appends nothing; and a new proxy is saved before its record is
\* written: a process that dies while saving the history has the assignments
\* of the call on disk.
C24_UsageRecorded ==
    [][/\ \A a \in Accounts :
            (lastCall'.op = "getLease" /\ lastCall'.account = a)
            => LET before == records_of(location_history, a)
                   after == records_of(location_history', a)
                   proxy == lastCall'.result
               IN IF proxy = NoneDict
                  THEN location_history' = location_history
                  ELSE /\ Len(before) < HistoryCap
                          => /\ Len(after) = Len(before) + 1
                             /\ SubSeq(after, 1, Len(before)) = before
                       /\ after[Len(after)] =
                             [timestamp |-> now',
                              city |-> proxy.verified_city,
                              region |-> proxy.verified_region,
                              ip |-> proxy.verified_ip,
                              session_id |-> proxy.session_id,
                              config_used |-> proxy.config_used]
       /\ (lastCall'.op = "crash" /\ lastCall'.during = "history")
          => assignments_file' = lastCall'.new.assignments]_vars

\* a new proxy verified in Phoenix was returned and recorded for one account,
\* and a process died while writing the record of a new proxy of the other,
\* whose assignments are on disk
C24_Witness ==
    /\ lastCall.op = "crash"
    /\ lastCall.during = "history"
    /\ lastCall.new.assignments # lastCall.old.assignments
    /\ \E a \in Accounts :
          /\ granted[a] # <<>>
          /\ last_granted(a).verified_city = "Phoenix"
          /\ a \in DOMAIN lastCall.new.history
          /\ a # lastCall.account
          /\ assignments_file = lastCall.new.assignments

\* C25 (one session id per account): every proxy ever returned for an
\* account, and the proxy stored for it, carries the same session id, whatever
\* configuration it was made with and however often it was replaced; the id
\* is "sticky_", the md5 prefix of the account id, "_" and the account id.
C25_SessionStable ==
    \A a \in Accounts :
        LET expected == IF a = 16 THEN "sticky_c74d97b0_16" ELSE "sticky_a1d0c6e8_42"
        IN /\ \A i \in 1..Len(granted[a]) : granted[a][i].proxy.session_id = expected
           /\ has_assignment(proxy_assignments, a)
              => proxy_assignments[a].session_id = expected
           /\ has_assignment(assignments_file, a)
              => assignments_file[a].session_id = expected

\* a proxy was replaced after its probe failed, by one made with a later
\* configuration
C25_Witness ==
    \E a \in Accounts :
        /\ Len(granted[a]) = 2
        /\ lastCall.op = "getLease"
        /\ lastCall.account = a
        /\ lastCall.existing_alive = "fail"
        /\ granted[a][1].proxy.config_used = "Full SOAX format"
        /\ granted[a][2].proxy.config_used # "Full SOAX format"
        /\ proxy_assignments[a] = granted[a][2].proxy

\* the probes of the last call that passed
passed_probes == {i \in 1..Len(lastCall.probes) : lastCall.probes[i].alive}

\* C26 (location looked up only at creation): a call that returns the stored
\* proxy asks no location service; a call that creates asks them for the one
\* candidate whose probe has just passed, the last it probed, and not at all
\* when no probe passed; so at most once in a call.
C26_VerifyOnlyAtCreation ==
    lastCall.op = "getLease"
    => /\ Len(lastCall.verifications) <= 1
       /\ lastCall.existing_alive = "pass"
          => /\ lastCall.verifications = <<>>
             /\ lastCall.probes = <<>>
             /\ lastCall.result = lastCall.previous
       /\ Len(lastCall.verifications) = Cardinality(passed_probes)
       /\ lastCall.verifications # <<>>
          => /\ lastCall.existing_alive # "pass"
             /\ passed_probes = {Len(lastCall.probes)}
             /\ lastCall.result # NoneDict
             /\ lastCall.result.username = last_probe.candidate.username

\* a stored proxy failed its probe and the replacement, made with the second
\* configuration, had its location looked up once
C26_Witness ==
    /\ lastCall.op = "getLease"
    /\ lastCall.existing_alive = "fail"
    /\ Len(lastCall.probes) = 2
    /\ Len(lastCall.verifications) = 1
    /\ lastCall.verifications[1].verified
    /\ \E a \in Accounts : Len(granted[a]) = 2 /\ lastCall.account = a

\* the location services that answered the last call with a JSON body
answered_services == {i \in 1..NumLocationServices : lastCall.located[i].kind = "json"}

\* C27 as claimed (the verifier reports what it saw): a verification that
\* fails although a location service answered carries the ip, country, region
\* and city of the last answer; one that fails because no service answered
\* carries a marker of that and no observation.
C27_ObservationKept ==
    (/\ lastCall.op = "getLease"
     /\ lastCall.verifications # <<>>
     /\ ~lastCall.verifications[1].verified)
    => LET v == lastCall.verifications[1]
       IN IF answered_services # {}
          THEN LET last == CHOOSE i \in answered_services :
                               \A j \in answered_services : j <= i
                   seen == location_parser(last, lastCall.located[last].data)
               IN /\ {"ip", "country", "region", "city"} \subseteq DOMAIN v
                  /\ v.ip = seen.ip
                  /\ v.country = seen.country
                  /\ v.region = seen.region
                  /\ v.city = seen.city
          ELSE /\ "error" \in DOMAIN v
               /\ "ip" \notin DOMAIN v

\* C28 as claimed (the cities the program announces): account 16 is given
\* Phoenix, Arizona, account 17 Scottsdale, Arizona and account 18 Tempe,
\* Arizona: every proxy returned for account 16 asks for Phoenix, and the
\* selection gives the other two their announced cities.
C28_DocumentedCities ==
    \A i \in 1..Len(granted[16]) :
        /\ granted[16][i].proxy.geo_city = "Phoenix"
        /\ granted[16][i].proxy.geo_region = "Arizona"
        /\ selected_location(16) = [city |-> "phoenix", region |-> "arizona"]
        /\ selected_location(17) = [city |-> "scottsdale", region |-> "arizona"]
        /\ selected_location(18) = [city |-> "tempe", region |-> "arizona"]

\* the proxy a map of assignments holds for account b, None where it has none
entry_of(assignments, b) ==
    IF has_assignment(assignments, b) THEN assignments[b] ELSE NoneDict

\* C29 as claimed (frame of a call): a call for one account, whatever it
\* returns, changes for no other account the proxy and the usage records
\* that the called manager holds and that the two files hold.
C29_OtherAccountsUntouched ==
    [][\A a \in Accounts : \A m \in Managers :
          (lastCall'.op = "getLease" /\ lastCall'.account = a /\ lastCall'.manager = m)
          => \A b \in Accounts \ {a} :
                LET before == manager_state(m)
                    after == (manager_state(m))'
                IN /\ entry_of(after.assignments, b) = entry_of(before.assignments, b)
                   /\ records_of(after.history, b) = records_of(before.history, b)
                   /\ entry_of(load_proxy_assignments(assignments_file'), b)
                         = entry_of(load_proxy_assignments(assignments_file), b)
                   /\ records_of(load_location_history(history_file'), b)
                         = records_of(load_location_history(history_file), b)]_vars

\* account a has a proxy and every call so far returned that same proxy
Unreplaced(a) ==
    /\ granted[a] # <<>>
    /\ \A i \in 1..Len(granted[a]) : granted[a][i].proxy = granted[a][1].proxy

\* C30 (an unreplaced proxy means low risk): from empty files, while the
\* proxy of an account was never replaced, all its usage records name one
\* (city, region) and its report says unique_locations = 1 and LOW; a report
\* of MEDIUM or HIGH means a proxy was replaced; and a call whose re-check
\* did not fail brings no new place into a history that has records.
C30_UnreplacedIsLowRisk ==
    /\ [](\A a \in Accounts :
             LET report == get_account_location_report(location_history, a)
             IN /\ Unreplaced(a)
                   => /\ Cardinality(Pairs(location_history[a])) = 1
                      /\ report.unique_locations = 1
                      /\ report.consistency_risk = "LOW"
                /\ (/\ a \in DOMAIN location_history
                    /\ report.consistency_risk \in {"MEDIUM", "HIGH"})
                   => ~Unreplaced(a))
    /\ [][\A a \in Accounts :
             (/\ lastCall'.op = "getLease"
              /\ lastCall'.account = a
              /\ lastCall'.existing_alive # "fail")
             => \/ records_of(location_history, a) = <<>>
                \/ Pairs(records_of(location_history', a))
                      \subseteq Pairs(records_of(location_history, a))]_vars

\* a proxy was used three times without being replaced and the report says LOW
C30_Witness ==
    \E a \in Accounts :
        /\ Unreplaced(a)
        /\ Len(granted[a]) >= 3
        /\ lastCall.op = "report"
        /\ lastCall.account = a
        /\ lastCall.result.total_logins = 3
        /\ lastCall.result.unique_locations = 1
        /\ lastCall.result.consistency_risk = "LOW"

====
